---- MODULE Spec2Model ----
(***************************************************************************)
(* Model of the generation-stamped spatial hash grid hash.Grid             *)
(* (src/hash/grid.go).                                                     *)
(*                                                                         *)
(* float32 coordinates and cell sizes are restricted to small integers,    *)
(* on which the float32 division, Floor, Ceil and multiplication of the    *)
(* source are exact.  A uint64 cell key is kept as four 16-bit limbs       *)
(* <<x.hi, x.lo, y.hi, y.lo>> (most significant first), because the        *)
(* model checker's integers are 32 bits wide.  The item type T is int,     *)
(* whose zero value is 0.  A cell size of 0 is left out of the inputs: it  *)
(* makes cellRange convert +-Inf or NaN to int32, whose result Go leaves   *)
(* to the implementation.                                                  *)
(*                                                                         *)
(* The module holds several specifications, one per object under study:    *)
(*   Spec          hash.Grid with each method as one step;                 *)
(*   SpecCodec     EncodeGridKey / DecodeGridKey of both packages;         *)
(*   SpecHashgrid  hashgrid.Grid of src/hashgrid/grid.go;                  *)
(*   SpecKeyed     hashgrid.Grid with a reverse index (src/unnamed/        *)
(*                 part_000) and the slices its callers hold;              *)
(*   SpecSteps     hash.Grid with InsertFunc split at the calls of its     *)
(*                 predicate;                                              *)
(*   SpecKeys      the runs of Spec and the runs of SpecKeyed together.    *)
(* A variable of an object a specification does not construct stays        *)
(* Absent throughout that specification; last, the last call of the        *)
(* hash.Grid, then names Absent as its operation.                          *)
(***************************************************************************)
EXTENDS Integers, Sequences, FiniteSets

\* ------------------------------------------------------------------ bounds
MaxItem == 1
MaxCoord == 1
MaxGen == 2
\* How far the coordinates given to the key codec range from the ends of
\* int32, from 0 and from +-2^16.
MaxNear == 1
\* hashgrid: the entries are 1..MaxEntry and their coordinates 0..MaxHCoord.
MaxEntry == 2
MaxHCoord == 3
MaxAbort == 1

Items == 0..MaxItem
Zero == 0
\* A box or query rectangle <<minX, minY, maxX, maxY>> with min <= max.  The
\* boxes vary along x, where they reach left of the origin, may be a single
\* point and may touch; along y they start at 0 and end at a positive bound.
XCoords == -1..MaxCoord
YCoords == 1..MaxCoord
\* The cell widths and heights given to NewGrid and Resize.
Sizes == {-1, 2}
Boxes == {<<x[1], 0, x[2], y>> : x \in {c \in XCoords \X XCoords : c[1] <= c[2]},
                                  y \in YCoords}

\* ------------------------------------------------------------- Grid fields
VARIABLES gen, cellWidth, cellHeight, cells, items, itemCells, qBuf,
          plain, last,
          codec, hgrid, entries, inserted, hcall, rgrid, heap, held, frame

grid == <<gen, cellWidth, cellHeight, cells, items, itemCells, qBuf>>
hashVars == <<gen, cellWidth, cellHeight, cells, items, itemCells, qBuf, plain, last>>
hashgridVars == <<hgrid, entries, inserted, hcall>>
keyedVars == <<rgrid, heap, held>>
vars == <<gen, cellWidth, cellHeight, cells, items, itemCells, qBuf, plain, last,
          codec, hgrid, entries, inserted, hcall, rgrid, heap, held, frame>>

\* The value of a variable whose object is not constructed.
Absent == "absent"

\* No hash.Grid is constructed: no call of it was the last one.
NoGrid ==
    /\ gen = Absent /\ cellWidth = Absent /\ cellHeight = Absent
    /\ cells = Absent /\ items = Absent /\ itemCells = Absent /\ qBuf = Absent
    /\ plain = Absent /\ last = [op |-> Absent]

\* No hashgrid.Grid of src/hashgrid/grid.go is constructed.
NoHashgrid ==
    hgrid = Absent /\ entries = Absent /\ inserted = Absent /\ hcall = Absent

\* No hashgrid.Grid of src/unnamed/part_000 is constructed.
NoKeyed == rgrid = Absent /\ heap = Absent /\ held = Absent

\* ------------------------------------------------------------ small helpers
\* m with key k set to v (a Go map assignment m[k] = v).
MapPut(m, k, v) == [x \in DOMAIN m \cup {k} |-> IF x = k THEN v ELSE m[x]]

\* m without key k (Go delete(m, k)).
MapDelete(m, k) == [x \in DOMAIN m \ {k} |-> m[x]]

EmptyMap == [x \in {} |-> 0]

\* math.Floor(float64(a / b)) and math.Ceil(float64(a / b)) on integers, b # 0.
FloorDiv(a, b) == IF b > 0 THEN a \div b ELSE (0 - a) \div (0 - b)

CeilDiv(a, b) == 0 - FloorDiv(0 - a, b)

\* ---------------------------------------------------------------- key codec
\* uint32(int64(v) + offset) as <<high 16 bits, low 16 bits>>.
Biased(v) == <<((v \div 65536) + 32768) % 65536, v % 65536>>

EncodeGridKey(x, y) == Biased(x) \o Biased(y)

\* int32(u) of the 32-bit pattern u = <<high 16 bits, low 16 bits>>.
Int32(u) == IF u[1] >= 32768 THEN (u[1] - 65536) * 65536 + u[2]
            ELSE u[1] * 65536 + u[2]

\* The low 32 bits of int64(v) - offset for an int32 v, which the conversion
\* to int32 keeps.
MinusOffset(v) == <<((v \div 65536) + 32768) % 65536, v % 65536>>

\* A plausible slip: the halves are converted to int32 and the offset is
\* never taken off.
decodeKeepsOffset(key) == <<Int32(<<key[1], key[2]>>), Int32(<<key[3], key[4]>>)>>

\* hash.DecodeGridKey: each half goes through int32(uint32(.)) first and the
\* offset is taken off after that.
DecodeGridKey(key) ==
    LET upper == Int32(<<key[1], key[2]>>)
        lower == Int32(<<key[3], key[4]>>)
    IN  <<Int32(MinusOffset(upper)), Int32(MinusOffset(lower))>>

\* hashgrid.EncodeGridKey.
hashgridEncodeGridKey(x, y) == Biased(x) \o Biased(y)

\* hashgrid.DecodeGridKey: int64(uint32(half)) - offset lies in int32, so the
\* conversion to int32 keeps it.
hashgridDecodeGridKey(key) ==
    <<(key[1] - 32768) * 65536 + key[2], (key[3] - 32768) * 65536 + key[4]>>

NoGridPadding == 0
GridCellPadding == 1
Paddings == {NoGridPadding, GridCellPadding}

\* The per-cell predicates passed to InsertFunc; "nil" is Insert's nil fn.
Fns == {"nil", "none", "left"}

GridInsertionFunc(fn, minX, minY, maxX, maxY) ==
    CASE fn = "none" -> FALSE
      [] fn = "left" -> maxX <= 0

\* --------------------------------------------------------------- cellRange
\* A plausible slip: the upper bounds are floor + 1, which takes the next
\* cell for a box that ends on a cell boundary.
cellRangeClosed(b) ==
    [minCellX |-> FloorDiv(b[1], cellWidth),
     minCellY |-> FloorDiv(b[2], cellHeight),
     maxCellX |-> FloorDiv(b[3], cellWidth) + 1,
     maxCellY |-> FloorDiv(b[4], cellHeight) + 1]

cellRange(b) ==
    [minCellX |-> FloorDiv(b[1], cellWidth),
     minCellY |-> FloorDiv(b[2], cellHeight),
     maxCellX |-> CeilDiv(b[3], cellWidth),
     maxCellY |-> CeilDiv(b[4], cellHeight)]

\* The cells <<cx, cy>> visited by
\*   for cy := minCellY; cy < maxCellY; cy++ { for cx := minCellX; cx < maxCellX; cx++
\* in the order visited.
RangeCells(r) ==
    LET w == r.maxCellX - r.minCellX
        h == r.maxCellY - r.minCellY
    IN  IF w <= 0 \/ h <= 0 THEN <<>>
        ELSE [n \in 1..(w * h) |->
                <<r.minCellX + ((n - 1) % w), r.minCellY + ((n - 1) \div w)>>]

Contains(item) == item \in DOMAIN items

Cells == DOMAIN cells

CellSize == <<cellWidth, cellHeight>>

\* ------------------------------------------------------------------ insert
\* g.cells[key] = append(g.cells[key], item)
appendToCell(cs, key, item) ==
    MapPut(cs, key, Append(IF key \in DOMAIN cs THEN cs[key] ELSE <<>>, item))

\* doInsert for cell c: true when fn is nil, else fn on the cell's world bounds.
doInsert(fn, c) ==
    IF fn = "nil" THEN TRUE
    ELSE LET cellMinX == c[1] * cellWidth
             cellMinY == c[2] * cellHeight
         IN  GridInsertionFunc(fn, cellMinX, cellMinY,
                               cellMinX + cellWidth, cellMinY + cellHeight)

\* The arguments of fn for cell c: cellMinX, cellMinY, cellMaxX, cellMaxY.
cellBounds(c) ==
    LET cellMinX == c[1] * cellWidth
        cellMinY == c[2] * cellHeight
    IN  <<cellMinX, cellMinY, cellMinX + cellWidth, cellMinY + cellHeight>>

\* The calls of fn that insert's double loop makes from its n-th cell on, each
\* as its arguments, in the order made: none when fn is nil.
RECURSIVE insertCalls(_, _, _)
insertCalls(cs, n, fn) ==
    IF n > Len(cs) THEN <<>>
    ELSE (IF fn # "nil" THEN <<cellBounds(cs[n])>> ELSE <<>>)
         \o insertCalls(cs, n + 1, fn)

\* A plausible slip: the loop ends at the first cell fn rejects.
RECURSIVE insertLoopStopsAtReject(_, _, _, _, _)
insertLoopStopsAtReject(cs, n, item, fn, acc) ==
    IF n > Len(cs) THEN acc
    ELSE LET key == EncodeGridKey(cs[n][1], cs[n][2])
         IN  IF doInsert(fn, cs[n])
             THEN insertLoopStopsAtReject(cs, n + 1, item, fn,
                      [cells |-> appendToCell(acc.cells, key, item),
                       cellKeys |-> Append(acc.cellKeys, key)])
             ELSE acc

\* The double loop of insert from its n-th cell on; acc is [cells, cellKeys].
RECURSIVE insertLoop(_, _, _, _, _)
insertLoop(cs, n, item, fn, acc) ==
    IF n > Len(cs) THEN acc
    ELSE LET key == EncodeGridKey(cs[n][1], cs[n][2])
         IN  insertLoop(cs, n + 1, item, fn,
                 IF doInsert(fn, cs[n])
                 THEN [cells |-> appendToCell(acc.cells, key, item),
                       cellKeys |-> Append(acc.cellKeys, key)]
                 ELSE acc)

\* if padding == GridCellPadding { minCellX--; minCellY--; maxCellX++; maxCellY++ }
padRange(r, padding) ==
    IF padding = GridCellPadding
    THEN [minCellX |-> r.minCellX - 1, minCellY |-> r.minCellY - 1,
          maxCellX |-> r.maxCellX + 1, maxCellY |-> r.maxCellY + 1]
    ELSE r

\* A plausible slip: insert without its duplicate guard.
insertNeverRejects(item) == FALSE

\* The guard of insert: an item already present is rejected.
insertRejects(item) == Contains(item)

\* A plausible slip: an item that got no cell is not recorded.
insertSkipsCellless(item, b, padding, fn) ==
    IF insertRejects(item)
    THEN [ret |-> FALSE, cells |-> cells, items |-> items, itemCells |-> itemCells]
    ELSE LET done == insertLoop(RangeCells(padRange(cellRange(b), padding)), 1,
                                item, fn, [cells |-> cells, cellKeys |-> <<>>])
         IN  IF done.cellKeys = <<>>
             THEN [ret |-> TRUE, cells |-> cells, items |-> items,
                   itemCells |-> itemCells]
             ELSE [ret |-> TRUE,
                   cells |-> done.cells,
                   items |-> MapPut(items, item, 0),
                   itemCells |-> MapPut(itemCells, item, done.cellKeys)]

\* insert: the returned bool and the maps it leaves.
insert(item, b, padding, fn) ==
    IF insertRejects(item)
    THEN [ret |-> FALSE, cells |-> cells, items |-> items, itemCells |-> itemCells]
    ELSE LET done == insertLoop(RangeCells(padRange(cellRange(b), padding)), 1,
                                item, fn, [cells |-> cells, cellKeys |-> <<>>])
         IN  [ret |-> TRUE,
              cells |-> done.cells,
              items |-> MapPut(items, item, 0),
              itemCells |-> MapPut(itemCells, item, done.cellKeys)]

\* ------------------------------------------------------------------ Remove
\* A plausible slip: the emptied bucket is stored back instead of deleted.
removeFromCellKeepsEmpty(cs, key, item) ==
    LET its == IF key \in DOMAIN cs THEN cs[key] ELSE <<>>
    IN  MapPut(cs, key, SelectSeq(its, LAMBDA it : it # item))

\* One iteration of Remove's loop: compact the bucket of key, keeping the
\* elements != item; delete the bucket when nothing is kept.
removeFromCell(cs, key, item) ==
    LET its == IF key \in DOMAIN cs THEN cs[key] ELSE <<>>
        kept == SelectSeq(its, LAMBDA it : it # item)
    IN  IF Len(kept) = 0 THEN MapDelete(cs, key) ELSE MapPut(cs, key, kept)

\* A plausible slip: the loop over the item's keys stops one key early.
RECURSIVE removeLoopStopsEarly(_, _, _, _)
removeLoopStopsEarly(cs, cellKeys, n, item) ==
    IF n >= Len(cellKeys) THEN cs
    ELSE removeLoopStopsEarly(removeFromCell(cs, cellKeys[n], item), cellKeys, n + 1, item)

\* Remove's loop over the item's keys from the n-th key on.
RECURSIVE removeLoop(_, _, _, _)
removeLoop(cs, cellKeys, n, item) ==
    IF n > Len(cellKeys) THEN cs
    ELSE removeLoop(removeFromCell(cs, cellKeys[n], item), cellKeys, n + 1, item)

\* ------------------------------------------------------------------- Query
\* A plausible slip: no deduplication across cells.
alwaysUnseen(its, item, g) == TRUE

\* if g.items[item] != g.gen: a missing key reads as 0.
notYetSeen(its, item, g) == (IF item \in DOMAIN its THEN its[item] ELSE 0) # g

\* The scan of one bucket from its n-th element on; acc is [qBuf, items].
RECURSIVE scanBucket(_, _, _, _)
scanBucket(bucket, n, g, acc) ==
    IF n > Len(bucket) THEN acc
    ELSE scanBucket(bucket, n + 1, g,
             IF notYetSeen(acc.items, bucket[n], g)
             THEN [qBuf |-> Append(acc.qBuf, bucket[n]),
                   items |-> MapPut(acc.items, bucket[n], g)]
             ELSE acc)

\* The double loop of Query from its n-th cell on.
RECURSIVE scanCells(_, _, _, _, _)
scanCells(cs, n, store, g, acc) ==
    IF n > Len(cs) THEN acc
    ELSE LET key == EncodeGridKey(cs[n][1], cs[n][2])
         IN  scanCells(cs, n + 1, store, g,
                 IF key \in DOMAIN store
                 THEN scanBucket(store[key], 1, g, acc)
                 ELSE acc)

\* A plausible slip: Query without g.gen++.
queryOnSameGen(store, its, g, b) ==
    LET res == scanCells(RangeCells(cellRange(b)), 1, store, g,
                         [qBuf |-> <<>>, items |-> its])
    IN  [qBuf |-> res.qBuf, items |-> res.items, gen |-> g]

\* A plausible slip: Query without g.qBuf = g.qBuf[:0].
queryOnKeepsBuffer(store, its, g, b) ==
    LET res == scanCells(RangeCells(cellRange(b)), 1, store, g + 1,
                         [qBuf |-> qBuf, items |-> its])
    IN  [qBuf |-> res.qBuf, items |-> res.items, gen |-> g + 1]

\* Query on the grid <<store, its, g>>: the buffer it returns and the stamps
\* and generation it leaves.
queryOn(store, its, g, b) ==
    LET res == scanCells(RangeCells(cellRange(b)), 1, store, g + 1,
                         [qBuf |-> <<>>, items |-> its])
    IN  [qBuf |-> res.qBuf, items |-> res.items, gen |-> g + 1]

\* QueryCells: the occupied keys of the rectangle's cell range, in scan order.
QueryCells(b) ==
    LET cs == RangeCells(cellRange(b))
        ks == [n \in DOMAIN cs |-> EncodeGridKey(cs[n][1], cs[n][2])]
    IN  SelectSeq(ks, LAMBDA k : k \in DOMAIN cells)

\* ----------------------------------------------------------- seen-set Query
\* The other way to deduplicate: a bucket's entries from the n-th on are
\* appended to the results unless the results of this call hold them already.
RECURSIVE seenSetScanBucket(_, _, _)
seenSetScanBucket(bucket, n, results) ==
    IF n > Len(bucket) THEN results
    ELSE seenSetScanBucket(bucket, n + 1,
             IF \E i \in DOMAIN results : results[i] = bucket[n] THEN results
             ELSE Append(results, bucket[n]))

RECURSIVE seenSetScanCells(_, _, _, _)
seenSetScanCells(cs, n, store, results) ==
    IF n > Len(cs) THEN results
    ELSE LET key == EncodeGridKey(cs[n][1], cs[n][2])
         IN  seenSetScanCells(cs, n + 1, store,
                 IF key \in DOMAIN store
                 THEN seenSetScanBucket(store[key], 1, results)
                 ELSE results)

\* A Query on the bucket store of hash.Grid that starts from empty results and
\* scans the cells of Query's double loop in its order.
seenSetQueryOn(store, b) == seenSetScanCells(RangeCells(cellRange(b)), 1, store, <<>>)

\* -------------------------------------------------------------- operations
\* The last call: its name, its item (Zero when it takes none) and the bool an
\* insert returned (FALSE for the calls that return none).
Call(op, item, ret) == [op |-> op, item |-> item, ret |-> ret]

NewGrid(w, h) ==
    /\ gen = 0
    /\ cellWidth = w
    /\ cellHeight = h
    /\ cells = EmptyMap
    /\ items = EmptyMap
    /\ itemCells = EmptyMap
    /\ qBuf = <<>>
    /\ plain = EmptyMap
    /\ last = Call("NewGrid", Zero, FALSE)

\* The objects beside the hash.Grid, which Spec does not construct.
beside == <<codec, hashgridVars, keyedVars, frame>>

Init ==
    /\ \E w \in Sizes, h \in Sizes : NewGrid(w, h)
    /\ codec = Absent /\ NoHashgrid /\ NoKeyed /\ frame = Absent

\* A call of insert through Insert or InsertFunc.  plain remembers the box of
\* each present item that was inserted with NoGridPadding and no predicate.
insertCall(op, item, b, padding, fn) ==
    LET r == insert(item, b, padding, fn)
    IN  /\ cells' = r.cells
        /\ items' = r.items
        /\ itemCells' = r.itemCells
        /\ plain' = IF r.ret /\ fn = "nil" /\ padding = NoGridPadding
                    THEN MapPut(plain, item, b)
                    ELSE plain
        /\ last' = Call(op, item, r.ret)
        /\ UNCHANGED <<gen, cellWidth, cellHeight, qBuf>>

Insert(item, b, padding) == insertCall("Insert", item, b, padding, "nil")

InsertFunc(item, b, padding, fn) == insertCall("InsertFunc", item, b, padding, fn)

Remove(item) ==
    /\ IF ~Contains(item)
       THEN UNCHANGED <<cells, items, itemCells>>
       ELSE /\ items' = MapDelete(items, item)
            /\ itemCells' = MapDelete(itemCells, item)
            \* cellKeys := g.itemCells[item]: a missing key reads as nil.
            /\ cells' = removeLoop(cells, IF item \in DOMAIN itemCells
                                          THEN itemCells[item] ELSE <<>>, 1, item)
    /\ plain' = [x \in DOMAIN plain \ {item} |-> plain[x]]
    /\ last' = Call("Remove", item, FALSE)
    /\ UNCHANGED <<gen, cellWidth, cellHeight, qBuf>>

\* A plausible slip: Clear without clear(g.items).
clearedKeepsItems ==
    [cells |-> EmptyMap, items |-> items, itemCells |-> EmptyMap,
     qBuf |-> [n \in DOMAIN qBuf |-> Zero], gen |-> 0]

\* clear(g.qBuf) zeroes the elements of the buffer and keeps its length.
cleared == [cells |-> EmptyMap, items |-> EmptyMap, itemCells |-> EmptyMap,
            qBuf |-> [n \in DOMAIN qBuf |-> Zero], gen |-> 0]

Clear ==
    /\ cells' = cleared.cells
    /\ items' = cleared.items
    /\ itemCells' = cleared.itemCells
    /\ qBuf' = cleared.qBuf
    /\ gen' = cleared.gen
    /\ plain' = EmptyMap
    /\ last' = Call("Clear", Zero, FALSE)
    /\ UNCHANGED <<cellWidth, cellHeight>>

\* A plausible slip: only the width is compared.
resizeComparesWidth(w, h) == cellWidth = w

\* A plausible slip: Resize clears whatever the size.
resizeAlwaysClears(w, h) == FALSE

\* The guard of Resize: an unchanged size is a no-op.
resizeUnchanged(w, h) == cellWidth = w /\ cellHeight = h

Resize(w, h) ==
    /\ IF resizeUnchanged(w, h)
       THEN UNCHANGED <<grid, plain>>
       ELSE /\ cells' = cleared.cells
            /\ items' = cleared.items
            /\ itemCells' = cleared.itemCells
            /\ qBuf' = cleared.qBuf
            /\ gen' = cleared.gen
            /\ plain' = EmptyMap
            /\ cellWidth' = w
            /\ cellHeight' = h
    /\ last' = Call("Resize", Zero, FALSE)

Query(b) ==
    /\ gen < MaxGen
    /\ LET r == queryOn(cells, items, gen, b)
       IN  /\ qBuf' = r.qBuf
           /\ items' = r.items
           /\ gen' = r.gen
    /\ last' = Call("Query", Zero, FALSE)
    /\ UNCHANGED <<cellWidth, cellHeight, cells, itemCells, plain>>

Next ==
    \/ \E item \in Items, b \in Boxes, padding \in Paddings :
          Insert(item, b, padding) /\ UNCHANGED beside
    \/ \E item \in Items, b \in Boxes, padding \in Paddings, fn \in Fns :
          InsertFunc(item, b, padding, fn) /\ UNCHANGED beside
    \/ \E item \in Items : Remove(item) /\ UNCHANGED beside
    \/ Clear /\ UNCHANGED beside
    \/ \E w \in Sizes, h \in Sizes : Resize(w, h) /\ UNCHANGED beside
    \/ \E b \in Boxes : Query(b) /\ UNCHANGED beside

Spec == Init /\ [][Next]_vars

\* ---------------------------------------------------------------- SpecCodec
MaxInt32 == 2147483647
MinInt32 == (0 - MaxInt32) - 1

\* The cell coordinates given to the codec: the ends of int32 and the
\* values around 0 and +-2^16, where the 16-bit limbs carry.
KeyCoords ==
    {MinInt32 + d : d \in 0..MaxNear} \cup {MaxInt32 - d : d \in 0..MaxNear}
    \cup ((0 - MaxNear)..MaxNear)
    \cup ((65536 - MaxNear)..(65536 + MaxNear))
    \cup ((0 - 65536 - MaxNear)..(MaxNear - 65536))

Packages == {"hash", "hashgrid"}

\* codec is one use of a package's codec: the coordinates, the key once
\* encoded and the coordinates once decoded (<<>> before).
CodecInit ==
    /\ \E pkg \in Packages, x \in KeyCoords, y \in KeyCoords :
          codec = [pkg |-> pkg, x |-> x, y |-> y, key |-> <<>>, out |-> <<>>]
    /\ NoGrid /\ NoHashgrid /\ NoKeyed /\ frame = Absent

Encode ==
    /\ codec.key = <<>>
    /\ codec' = [codec EXCEPT !.key = IF codec.pkg = "hash"
                                      THEN EncodeGridKey(codec.x, codec.y)
                                      ELSE hashgridEncodeGridKey(codec.x, codec.y)]
    /\ UNCHANGED <<hashVars, hashgridVars, keyedVars, frame>>

Decode ==
    /\ codec.key # <<>> /\ codec.out = <<>>
    /\ codec' = [codec EXCEPT !.out = IF codec.pkg = "hash"
                                      THEN DecodeGridKey(codec.key)
                                      ELSE hashgridDecodeGridKey(codec.key)]
    /\ UNCHANGED <<hashVars, hashgridVars, keyedVars, frame>>

CodecNext == Encode \/ Decode

SpecCodec == CodecInit /\ [][CodecNext]_vars

\* ------------------------------------------------------------- SpecHashgrid
\* hashgrid.Grid of src/hashgrid/grid.go.  hgrid is the *Grid a constructor
\* returned, or Panicked; entries gives each constructed entry its current
\* Min() and Max() as <<minX, minY, maxX, maxY>>; inserted holds the entries
\* that were inserted and not moved, removed or cleared since; hcall is the
\* last call of a constructor or method.
Entries == 1..MaxEntry
HCoords == 0..MaxHCoord
HSizes == {-1, 0, 2}

\* The boxes of entries and the query rectangles: squares on the diagonal.
HBoxes == {<<c[1], c[1], c[2], c[2]>> : c \in {d \in HCoords \X HCoords : d[1] < d[2]}}

NoPadding == 0
LeftPadding == 1
RightPadding == 2
TopPadding == 4
BottomPadding == 8
AllPadding == 15
GridPaddings == {NoPadding, LeftPadding, RightPadding, TopPadding, BottomPadding,
                 AllPadding}

\* What a constructor leaves when it panics: no grid.
Panicked == [panic |-> "cellSize must be positive"]

\* int32(a / cellSize): the conversion truncates toward zero (cellSize > 0).
TruncDiv(a, b) == IF a >= 0 THEN a \div b ELSE 0 - ((0 - a) \div b)

\* A plausible slip: only a negative cell size is refused.
newWithPaddingAllowsZero(cellSize, padding) ==
    IF cellSize < 0 THEN Panicked
    ELSE [left |-> padding % 2, right |-> (padding \div 2) % 2,
          top |-> (padding \div 4) % 2, bottom |-> (padding \div 8) % 2,
          cellSize |-> cellSize, cells |-> EmptyMap]

\* A plausible slip: the masked bits are stored without the shifts.
newWithPaddingUnshifted(cellSize, padding) ==
    IF cellSize <= 0 THEN Panicked
    ELSE [left |-> padding % 2, right |-> ((padding \div 2) % 2) * 2,
          top |-> ((padding \div 4) % 2) * 4, bottom |-> ((padding \div 8) % 2) * 8,
          cellSize |-> cellSize, cells |-> EmptyMap]

NewWithPadding(cellSize, padding) ==
    IF cellSize <= 0 THEN Panicked
    ELSE [left |-> padding % 2, right |-> (padding \div 2) % 2,
          top |-> (padding \div 4) % 2, bottom |-> (padding \div 8) % 2,
          cellSize |-> cellSize, cells |-> EmptyMap]

New(cellSize) == NewWithPadding(cellSize, NoPadding)

\* The keys of  for x := startX; x <= endX; x++ { for y := startY; y <= endY; y++
\* in the order visited.
InclusiveKeys(startX, startY, endX, endY) ==
    LET w == endX - startX + 1
        h == endY - startY + 1
    IN  IF w <= 0 \/ h <= 0 THEN <<>>
        ELSE [n \in 1..(w * h) |->
                hashgridEncodeGridKey(startX + ((n - 1) \div h), startY + ((n - 1) % h))]

\* GetKeys on the grid g for an entry whose box is b.
GetKeys(g, b) ==
    InclusiveKeys(TruncDiv(b[1], g.cellSize) - g.left,
                  TruncDiv(b[2], g.cellSize) - g.top,
                  (TruncDiv(b[3], g.cellSize) - 1) + g.right,
                  (TruncDiv(b[4], g.cellSize) - 1) + g.bottom)

\* Insert's loop over keys from the n-th key on: append unless the bucket
\* holds the entry already.
RECURSIVE hashgridInsertLoop(_, _, _, _)
hashgridInsertLoop(cs, keys, n, entry) ==
    IF n > Len(keys) THEN cs
    ELSE LET es == IF keys[n] \in DOMAIN cs THEN cs[keys[n]] ELSE <<>>
         IN  hashgridInsertLoop(
                 IF \E i \in DOMAIN es : es[i] = entry THEN cs
                 ELSE MapPut(cs, keys[n], Append(es, entry)),
                 keys, n + 1, entry)

\* es without its first element equal to entry.
WithoutFirst(es, entry) ==
    IF \E i \in DOMAIN es : es[i] = entry
    THEN LET j == CHOOSE i \in DOMAIN es :
                      es[i] = entry /\ \A k \in 1..(i - 1) : es[k] # entry
         IN  SubSeq(es, 1, j - 1) \o SubSeq(es, j + 1, Len(es))
    ELSE es

\* Remove's loop over keys from the n-th key on.
RECURSIVE hashgridRemoveLoop(_, _, _, _)
hashgridRemoveLoop(cs, keys, n, entry) ==
    IF n > Len(keys) THEN cs
    ELSE LET es == IF keys[n] \in DOMAIN cs THEN cs[keys[n]] ELSE <<>>
             kept == WithoutFirst(es, entry)
         IN  hashgridRemoveLoop(
                 IF kept = es THEN cs
                 ELSE IF Len(kept) = 0 THEN MapDelete(cs, keys[n])
                 ELSE MapPut(cs, keys[n], kept),
                 keys, n + 1, entry)

\* The scan of one bucket by Query from its n-th entry on; results holds
\* the entries appended so far (the entries of seen).
RECURSIVE hashgridScanBucket(_, _, _, _, _)
hashgridScanBucket(es, n, bs, q, results) ==
    IF n > Len(es) THEN results
    ELSE hashgridScanBucket(es, n + 1, bs, q,
             IF \E i \in DOMAIN results : results[i] = es[n] THEN results
             ELSE IF /\ bs[es[n]][3] >= q[1] /\ bs[es[n]][1] <= q[3]
                     /\ bs[es[n]][4] >= q[2] /\ bs[es[n]][2] <= q[4]
                  THEN Append(results, es[n])
                  ELSE results)

RECURSIVE hashgridScanCells(_, _, _, _, _, _)
hashgridScanCells(keys, n, cs, bs, q, results) ==
    IF n > Len(keys) THEN results
    ELSE hashgridScanCells(keys, n + 1, cs, bs, q,
             IF keys[n] \in DOMAIN cs
             THEN hashgridScanBucket(cs[keys[n]], 1, bs, q, results)
             ELSE results)

\* Query on the grid g with the entries' boxes bs.
hashgridQuery(g, bs, q) ==
    hashgridScanCells(InclusiveKeys(TruncDiv(q[1], g.cellSize), TruncDiv(q[2], g.cellSize),
                                    TruncDiv(q[3], g.cellSize), TruncDiv(q[4], g.cellSize)),
                      1, g.cells, bs, q, <<>>)

HCall(op, arg, ret) == [op |-> op, arg |-> arg, ret |-> ret]

HashgridInit ==
    /\ \/ \E cellSize \in HSizes :
             /\ hgrid = New(cellSize)
             /\ hcall = HCall("New", <<cellSize, NoPadding>>, <<>>)
       \/ \E cellSize \in HSizes, padding \in GridPaddings :
             /\ hgrid = NewWithPadding(cellSize, padding)
             /\ hcall = HCall("NewWithPadding", <<cellSize, padding>>, <<>>)
    /\ entries = EmptyMap
    /\ inserted = {}
    /\ codec = Absent /\ NoGrid /\ NoKeyed /\ frame = Absent

\* The caller constructs entry with box b, or moves it there.
SetBox(entry, b) ==
    /\ hgrid # Panicked
    /\ IF entry \in DOMAIN entries THEN entries[entry] # b ELSE TRUE
    /\ entries' = MapPut(entries, entry, b)
    /\ inserted' = inserted \ {entry}
    /\ UNCHANGED <<hgrid, hcall>>

HashgridInsert(entry) ==
    /\ hgrid # Panicked /\ entry \in DOMAIN entries
    /\ hgrid' = [hgrid EXCEPT !.cells =
                     hashgridInsertLoop(hgrid.cells, GetKeys(hgrid, entries[entry]), 1, entry)]
    /\ inserted' = inserted \cup {entry}
    /\ hcall' = HCall("Insert", entry, <<>>)
    /\ UNCHANGED entries

HashgridRemove(entry) ==
    /\ hgrid # Panicked /\ entry \in DOMAIN entries
    /\ hgrid' = [hgrid EXCEPT !.cells =
                     hashgridRemoveLoop(hgrid.cells, GetKeys(hgrid, entries[entry]), 1, entry)]
    /\ inserted' = inserted \ {entry}
    /\ hcall' = HCall("Remove", entry, <<>>)
    /\ UNCHANGED entries

HashgridQuery(q) ==
    /\ hgrid # Panicked
    /\ hcall' = HCall("Query", <<>>, hashgridQuery(hgrid, entries, q))
    /\ UNCHANGED <<hgrid, entries, inserted>>

HashgridClear ==
    /\ hgrid # Panicked
    /\ hgrid' = [hgrid EXCEPT !.cells = EmptyMap]
    /\ inserted' = {}
    /\ hcall' = HCall("Clear", <<>>, <<>>)
    /\ UNCHANGED entries

HashgridNext ==
    \/ \E entry \in Entries, b \in HBoxes :
          SetBox(entry, b) /\ UNCHANGED <<hashVars, codec, keyedVars, frame>>
    \/ \E entry \in Entries :
          HashgridInsert(entry) /\ UNCHANGED <<hashVars, codec, keyedVars, frame>>
    \/ \E entry \in Entries :
          HashgridRemove(entry) /\ UNCHANGED <<hashVars, codec, keyedVars, frame>>
    \/ \E q \in HBoxes :
          HashgridQuery(q) /\ UNCHANGED <<hashVars, codec, keyedVars, frame>>
    \/ HashgridClear /\ UNCHANGED <<hashVars, codec, keyedVars, frame>>

SpecHashgrid == HashgridInit /\ [][HashgridNext]_vars

\* ---------------------------------------------------------------- SpecKeyed
\* hashgrid.Grid with a reverse index (src/unnamed/part_000).  rgrid is the
\* *Grid that New returned, or Panicked.  A slice is [array, len]: the first
\* len elements of a backing array of the heap; heap gives each live array
\* its capacity and its elements as far as some slice reaches.  held is the slice
\* the caller keeps of those that Query, QueryUnsafe, Keys and KeysUnsafe
\* returned, with the method it came from.
NoArray == 0

\* The elements of slice s.
Contents(h, s) == IF s.len = 0 THEN <<>> ELSE SubSeq(h[s.array].elems, 1, s.len)

\* The identity of a newly allocated array.
Fresh(h) == CHOOSE id \in 1..(Cardinality(DOMAIN h) + 1) : id \notin DOMAIN h

\* append(s, x): in place while the capacity lasts, else into a new array of
\* twice the capacity.
AppendTo(h, s, x) ==
    IF s.len < h[s.array].cap
    THEN [heap |-> [h EXCEPT ![s.array].elems =
                        SubSeq(@, 1, s.len) \o <<x>> \o SubSeq(@, s.len + 2, Len(@))],
          slice |-> [s EXCEPT !.len = @ + 1]]
    ELSE [heap |-> MapPut(h, Fresh(h), [cap |-> 2 * h[s.array].cap,
                                         elems |-> Append(Contents(h, s), x)]),
          slice |-> [array |-> Fresh(h), len |-> s.len + 1]]

\* A plausible slip: the buffer itself is returned.
cloneShares(h, s) == [heap |-> h, slice |-> s]

\* slices.Clone(s): the elements in a new array; an empty slice has none.
Clone(h, s) ==
    IF s.len = 0 THEN [heap |-> h, slice |-> [array |-> NoArray, len |-> 0]]
    ELSE [heap |-> MapPut(h, Fresh(h), [cap |-> s.len, elems |-> Contents(h, s)]),
          slice |-> [array |-> Fresh(h), len |-> s.len]]

\* New of part_000: the grid, whose three buffers are the arrays 1, 2 and 3.
NewKeyed(cellSize) ==
    IF cellSize <= 0 THEN Panicked
    ELSE [cellSize |-> cellSize, cells |-> EmptyMap, cellKeys |-> EmptyMap,
          queryResults |-> [array |-> 1, len |-> 0],
          queryKeys |-> [array |-> 2, len |-> 0],
          getKeys |-> [array |-> 3, len |-> 0]]

\* The arrays New makes: make([]T, 0, 32), make([]GridKey, 0, 16) twice.
NewKeyedHeap == [id \in 1..3 |-> [cap |-> IF id = 1 THEN 32 ELSE 16, elems |-> <<>>]]

\* The per-cell checks passed to InsertStrictCheck and GetKeys; "nil" is nil.
Checks == {"nil", "origin"}

CellCheckFunc(check, minX, minY, maxX, maxY) ==
    CASE check = "origin" -> minX <= 0 /\ minY <= 0

\* The boxes of entries and the query rectangles of this grid: they start on
\* a cell boundary and end inside a cell along x, and span [0, 1] along y.
KBoxes == {<<b[1], 0, b[3], 1>> : b \in {c \in HBoxes : c[1] % 2 = 0 /\ c[3] % 2 = 1}}

\* The keys of  for x := sX; x < eX; x++ { for y := sY; y < eY; y++  of
\* computeCellRange(b, cellSize), in the order visited.
computeCellRange(b, cellSize) ==
    LET sX == FloorDiv(b[1], cellSize)
        sY == FloorDiv(b[2], cellSize)
        eX == CeilDiv(b[3], cellSize)
        eY == CeilDiv(b[4], cellSize)
    IN  IF eX - sX <= 0 \/ eY - sY <= 0 THEN <<>>
        ELSE [n \in 1..((eX - sX) * (eY - sY)) |->
                <<sX + ((n - 1) \div (eY - sY)), sY + ((n - 1) % (eY - sY))>>]

\* A loop that appends the elements of xs to the buffer s, from the n-th on.
RECURSIVE fill(_, _, _, _)
fill(h, s, xs, n) ==
    IF n > Len(xs) THEN [heap |-> h, slice |-> s]
    ELSE LET a == AppendTo(h, s, xs[n])
         IN  fill(a.heap, a.slice, xs, n + 1)

\* The same loop under  if !slices.Contains(g.queryResults, entries[i]).
RECURSIVE fillUnlessHeld(_, _, _, _)
fillUnlessHeld(h, s, xs, n) ==
    IF n > Len(xs) THEN [heap |-> h, slice |-> s]
    ELSE IF \E i \in 1..s.len : h[s.array].elems[i] = xs[n]
         THEN fillUnlessHeld(h, s, xs, n + 1)
         ELSE LET a == AppendTo(h, s, xs[n])
              IN  fillUnlessHeld(a.heap, a.slice, xs, n + 1)

\* getKeysInternal for an entry of box b: g.getKeys refilled.
getKeysInternal(g, h, b, check) ==
    LET cs == computeCellRange(b, g.cellSize)
        accepted == SelectSeq(cs, LAMBDA c :
                        IF check = "nil" THEN TRUE
                        ELSE CellCheckFunc(check, c[1] * g.cellSize, c[2] * g.cellSize,
                                           (c[1] + 1) * g.cellSize, (c[2] + 1) * g.cellSize))
        ks == [n \in DOMAIN accepted |->
                  hashgridEncodeGridKey(accepted[n][1], accepted[n][2])]
    IN  fill(h, [g.getKeys EXCEPT !.len = 0], ks, 1)

\* KeysUnsafe(q): g.queryKeys refilled with the occupied keys of q's range.
keysUnsafe(g, h, q) ==
    LET cs == computeCellRange(q, g.cellSize)
        ks == [n \in DOMAIN cs |-> hashgridEncodeGridKey(cs[n][1], cs[n][2])]
    IN  fill(h, [g.queryKeys EXCEPT !.len = 0],
             SelectSeq(ks, LAMBDA k : k \in DOMAIN g.cells), 1)

\* The entries of the buckets of the cells cs, bucket after bucket.
RECURSIVE BucketEntries(_, _, _)
BucketEntries(g, cs, n) ==
    IF n > Len(cs) THEN <<>>
    ELSE LET key == hashgridEncodeGridKey(cs[n][1], cs[n][2])
         IN  (IF key \in DOMAIN g.cells THEN g.cells[key] ELSE <<>>)
             \o BucketEntries(g, cs, n + 1)

\* QueryUnsafe(q): g.queryResults refilled with the entries of q's range
\* that it does not hold yet.
queryUnsafe(g, h, q) ==
    fillUnlessHeld(h, [g.queryResults EXCEPT !.len = 0],
                   BucketEntries(g, computeCellRange(q, g.cellSize), 1), 1)

\* The heap as the grid g and the caller's slice c reach it: an array that no
\* slice refers to is garbage, and so is an element behind the end of every
\* slice of its array (an append writes it before a slice can reach it).
Live(h, g, c) ==
    LET slices == {g.queryResults, g.queryKeys, g.getKeys}
                  \cup (IF c.op = "none" THEN {} ELSE {c.slice})
        reach(id) == CHOOSE n \in {s.len : s \in {r \in slices : r.array = id}} :
                         \A s \in slices : s.array = id => s.len <= n
    IN  [id \in DOMAIN h \cap {s.array : s \in slices} |->
            [cap |-> h[id].cap,
             elems |-> SubSeq(h[id].elems, 1,
                              IF reach(id) <= Len(h[id].elems) THEN reach(id)
                              ELSE Len(h[id].elems))]]

NoSlice == [op |-> "none"]

KeyedInit ==
    /\ \E cellSize \in HSizes :
          /\ rgrid = NewKeyed(cellSize)
          /\ heap = IF cellSize <= 0 THEN EmptyMap ELSE NewKeyedHeap
    /\ held = NoSlice
    /\ codec = Absent /\ NoGrid /\ NoHashgrid /\ frame = Absent

\* A call that returns the slice r.slice, leaving the grid g and the heap
\* r.heap: the caller takes the slice or keeps the one it holds.
returns(op, g, r, take) ==
    /\ rgrid' = g
    /\ held' = IF take THEN [op |-> op, slice |-> r.slice] ELSE held
    /\ heap' = Live(r.heap, g, held')

\* for i := range keys { g.cells[keys[i]] = append(g.cells[keys[i]], entry) }
\* from the n-th key on.
RECURSIVE placeLoop(_, _, _, _)
placeLoop(cs, keys, n, entry) ==
    IF n > Len(keys) THEN cs
    ELSE placeLoop(appendToCell(cs, keys[n], entry), keys, n + 1, entry)

\* InsertStrictCheck, also through Insert (check nil), of an entry of box b.
KeyedInsertStrictCheck(entry, b, check) ==
    /\ rgrid # Panicked
    /\ IF entry \in DOMAIN rgrid.cellKeys
       THEN UNCHANGED <<rgrid, heap>>
       ELSE LET r == getKeysInternal(rgrid, heap, b, check)
                keys == Contents(r.heap, r.slice)
            IN  /\ rgrid' = [rgrid EXCEPT
                                !.getKeys = r.slice,
                                !.cellKeys = MapPut(@, entry, keys),
                                !.cells = placeLoop(@, keys, 1, entry)]
                /\ heap' = Live(r.heap, rgrid', held)
    /\ UNCHANGED held

KeyedInsert(entry, b) == KeyedInsertStrictCheck(entry, b, "nil")

KeyedRemove(entry) ==
    /\ rgrid # Panicked
    /\ IF entry \in DOMAIN rgrid.cellKeys
       THEN rgrid' = [rgrid EXCEPT
                         !.cells = hashgridRemoveLoop(@, rgrid.cellKeys[entry], 1, entry),
                         !.cellKeys = MapDelete(@, entry)]
       ELSE UNCHANGED rgrid
    /\ UNCHANGED <<heap, held>>

KeyedQueryUnsafe(q, take) ==
    /\ rgrid # Panicked
    /\ LET r == queryUnsafe(rgrid, heap, q)
       IN  returns("QueryUnsafe", [rgrid EXCEPT !.queryResults = r.slice], r, take)

KeyedQuery(q, take) ==
    /\ rgrid # Panicked
    /\ LET r == queryUnsafe(rgrid, heap, q)
       IN  returns("Query", [rgrid EXCEPT !.queryResults = r.slice],
                   Clone(r.heap, r.slice), take)

KeyedKeysUnsafe(q, take) ==
    /\ rgrid # Panicked
    /\ LET r == keysUnsafe(rgrid, heap, q)
       IN  returns("KeysUnsafe", [rgrid EXCEPT !.queryKeys = r.slice], r, take)

KeyedKeys(q, take) ==
    /\ rgrid # Panicked
    /\ LET r == keysUnsafe(rgrid, heap, q)
       IN  returns("Keys", [rgrid EXCEPT !.queryKeys = r.slice],
                   Clone(r.heap, r.slice), take)

\* GetKeys of an entry of box b: the copy it returns is the caller's and is
\* dropped here.
KeyedGetKeys(b, check) ==
    /\ rgrid # Panicked
    /\ LET r == getKeysInternal(rgrid, heap, b, check)
       IN  /\ rgrid' = [rgrid EXCEPT !.getKeys = r.slice]
           /\ heap' = Live(r.heap, rgrid', held)
    /\ UNCHANGED held

KeyedClear ==
    /\ rgrid # Panicked
    /\ rgrid' = [rgrid EXCEPT !.cells = EmptyMap, !.cellKeys = EmptyMap,
                              !.queryResults.len = 0, !.queryKeys.len = 0,
                              !.getKeys.len = 0]
    /\ heap' = Live(heap, rgrid', held)
    /\ UNCHANGED held

KeyedNext ==
    \/ \E entry \in Entries, b \in KBoxes :
          KeyedInsert(entry, b) /\ UNCHANGED <<hashVars, codec, hashgridVars, frame>>
    \/ \E entry \in Entries, b \in KBoxes, check \in Checks :
          KeyedInsertStrictCheck(entry, b, check)
          /\ UNCHANGED <<hashVars, codec, hashgridVars, frame>>
    \/ \E entry \in Entries :
          KeyedRemove(entry) /\ UNCHANGED <<hashVars, codec, hashgridVars, frame>>
    \/ \E q \in KBoxes, take \in BOOLEAN :
          KeyedQueryUnsafe(q, take) /\ UNCHANGED <<hashVars, codec, hashgridVars, frame>>
    \/ \E q \in KBoxes, take \in BOOLEAN :
          KeyedQuery(q, take) /\ UNCHANGED <<hashVars, codec, hashgridVars, frame>>
    \/ \E q \in KBoxes, take \in BOOLEAN :
          KeyedKeysUnsafe(q, take) /\ UNCHANGED <<hashVars, codec, hashgridVars, frame>>
    \/ \E q \in KBoxes, take \in BOOLEAN :
          KeyedKeys(q, take) /\ UNCHANGED <<hashVars, codec, hashgridVars, frame>>
    \/ \E b \in KBoxes, check \in Checks :
          KeyedGetKeys(b, check) /\ UNCHANGED <<hashVars, codec, hashgridVars, frame>>
    \/ KeyedClear /\ UNCHANGED <<hashVars, codec, hashgridVars, frame>>

SpecKeyed == KeyedInit /\ [][KeyedNext]_vars

\* ----------------------------------------------------------------- SpecKeys
\* The two grids that answer with the occupied keys of a region: a run builds
\* the hash.Grid or the hashgrid.Grid of part_000 and goes on with its calls.
KeysInit == Init \/ KeyedInit

\* last tells which grid the run has built.
KeysNext ==
    \/ last.op # Absent /\ Next
    \/ last.op = Absent /\ KeyedNext

SpecKeys == KeysInit /\ [][KeysNext]_vars

\* ---------------------------------------------------------------- SpecSteps
\* hash.Grid with InsertFunc split at the calls of its predicate, which is
\* code of the caller and sees the grid while insert is under way.  frame is
\* the running call of insert: the item, the predicate, the cells of the
\* range, the index n of the cell whose predicate call is under way, the keys
\* collected so far and the maps as they were when InsertFunc was called.
\* Outside a call of InsertFunc frame only counts the calls aborted so far.
NoFrame(aborts) == [pc |-> "idle", aborts |-> aborts]

StepsInit ==
    /\ \E w \in Sizes, h \in Sizes : NewGrid(w, h)
    /\ frame = NoFrame(0)
    /\ codec = Absent /\ NoHashgrid /\ NoKeyed

\* insert after its loop: the item is recorded and true is returned.
insertReturns(item, cellKeys) ==
    /\ items' = MapPut(items, item, 0)
    /\ itemCells' = MapPut(itemCells, item, cellKeys)
    /\ frame' = NoFrame(frame.aborts)
    /\ last' = Call("InsertFunc", item, TRUE)

\* InsertFunc up to the first call of fn (or to its return, when the item is
\* present or the range has no cell).
InsertFuncCalled(item, b, padding, fn) ==
    /\ frame.pc = "idle" /\ fn # "nil"
    /\ IF insertRejects(item)
       THEN /\ last' = Call("InsertFunc", item, FALSE)
            /\ UNCHANGED <<cells, items, itemCells, frame>>
       ELSE LET cs == RangeCells(padRange(cellRange(b), padding))
            IN  IF Len(cs) = 0
                THEN insertReturns(item, <<>>) /\ UNCHANGED cells
                ELSE /\ frame' = [pc |-> "fn", item |-> item, fn |-> fn, cs |-> cs,
                                  n |-> 1, cellKeys |-> <<>>, aborts |-> frame.aborts,
                                  before |-> [cells |-> cells, items |-> items,
                                              itemCells |-> itemCells]]
                     /\ UNCHANGED <<cells, items, itemCells, last>>
    /\ UNCHANGED <<gen, cellWidth, cellHeight, qBuf, plain>>

\* The call of fn under way returns: the cell is filled if fn accepts it, and
\* insert goes on to the next call of fn or to its end.
PredicateReturns ==
    /\ frame.pc = "fn"
    /\ LET c == frame.cs[frame.n]
           key == EncodeGridKey(c[1], c[2])
           accepted == doInsert(frame.fn, c)
           cellKeys == IF accepted THEN Append(frame.cellKeys, key) ELSE frame.cellKeys
       IN  /\ cells' = IF accepted THEN appendToCell(cells, key, frame.item) ELSE cells
           /\ IF frame.n = Len(frame.cs)
              THEN insertReturns(frame.item, cellKeys)
              ELSE /\ frame' = [frame EXCEPT !.n = @ + 1, !.cellKeys = cellKeys]
                   /\ UNCHANGED <<items, itemCells, last>>
    /\ UNCHANGED <<gen, cellWidth, cellHeight, qBuf, plain>>

\* The call of fn under way panics: insert is left where it stands.
PredicateAborts ==
    /\ frame.pc = "fn" /\ frame.aborts < MaxAbort
    /\ frame' = NoFrame(frame.aborts + 1)
    /\ last' = Call("InsertFunc aborted", frame.item, FALSE)
    /\ UNCHANGED <<grid, plain>>

StepsNext ==
    \/ \E item \in Items, b \in Boxes, padding \in Paddings, fn \in Fns :
          InsertFuncCalled(item, b, padding, fn)
          /\ UNCHANGED <<codec, hashgridVars, keyedVars>>
    \/ PredicateReturns /\ UNCHANGED <<codec, hashgridVars, keyedVars>>
    \/ PredicateAborts /\ UNCHANGED <<codec, hashgridVars, keyedVars>>
    \/ \E item \in Items : frame.pc = "idle" /\ Remove(item) /\ UNCHANGED beside
    \/ frame.pc = "idle" /\ Clear /\ UNCHANGED beside
    \/ \E b \in Boxes : frame.pc = "idle" /\ Query(b) /\ UNCHANGED beside

SpecSteps == StepsInit /\ [][StepsNext]_vars

\* ================================================================== claims
Range(s) == {s[n] : n \in DOMAIN s}

\* How often x occurs in s.
Count(s, x) == Cardinality({n \in DOMAIN s : s[n] = x})

\* The keys of the buckets that hold item.
BucketsOf(item) == {k \in DOMAIN cells : item \in Range(cells[k])}

NoDuplicates(s) == \A m, n \in DOMAIN s : m # n => s[m] # s[n]

\* The keys of the cells of a half-open cell range.
KeysOfRange(r) ==
    {EncodeGridKey(cx, cy) : cx \in r.minCellX..(r.maxCellX - 1),
                             cy \in r.minCellY..(r.maxCellY - 1)}

\* What Query(q) returns in the current state.
Returned(q) == queryOn(cells, items, gen, q).qBuf

\* The boxes overlap or touch.
Overlaps(b, q) == b[3] >= q[1] /\ b[1] <= q[3] /\ b[4] >= q[2] /\ b[2] <= q[4]

\* The boxes share a region of positive width and height.
OverlapsInside(b, q) ==
    /\ (IF b[1] >= q[1] THEN b[1] ELSE q[1]) < (IF b[3] <= q[3] THEN b[3] ELSE q[3])
    /\ (IF b[2] >= q[2] THEN b[2] ELSE q[2]) < (IF b[4] <= q[4] THEN b[4] ELSE q[4])

\* C1: every item of the reverse index is exactly once in the bucket of each
\* key of its key list, and its key list holds no key twice.
C1_ReverseIndexMatchesBuckets ==
    \A item \in DOMAIN itemCells :
        /\ \A n \in DOMAIN itemCells[item] :
              /\ itemCells[item][n] \in DOMAIN cells
              /\ Count(cells[itemCells[item][n]], item) = 1
        /\ NoDuplicates(itemCells[item])

\* Both items span several cells, share buckets, and one was just put back
\* after a Remove and a Query.
C1_Witness ==
    /\ last.op \in {"Insert", "InsertFunc"} /\ last.ret
    /\ gen > 0
    /\ \A item \in Items : item \in DOMAIN itemCells /\ Len(itemCells[item]) >= 2
    /\ \E k \in DOMAIN cells : Len(cells[k]) = 2

\* C2 as stated: an item is in the reverse index iff it is in some bucket
\* (already on a grid whose cell size is positive).
C2_IndexIffInSomeBucket ==
    cellWidth > 0 /\ cellHeight > 0 =>
        \A item \in Items : (item \in DOMAIN itemCells) <=> (BucketsOf(item) # {})

\* C2 amended: an item that is in some bucket is in the reverse index (and
\* Contains agrees with the reverse index), and an item of the reverse index
\* is in some bucket exactly when its key list is not empty.
C2_IndexCoversBuckets ==
    \A item \in Items :
        /\ Contains(item) <=> item \in DOMAIN itemCells
        /\ BucketsOf(item) # {} => item \in DOMAIN itemCells
        /\ item \in DOMAIN itemCells =>
              ((BucketsOf(item) # {}) <=> (Len(itemCells[item]) > 0))
        /\ item \in DOMAIN itemCells => BucketsOf(item) = Range(itemCells[item])

\* One item is recorded with no cell while the other sits in buckets, after a
\* Remove took the first out and an insert put it back.
C2_Witness ==
    /\ last.op \in {"Insert", "InsertFunc"} /\ last.ret
    /\ Contains(last.item) /\ itemCells[last.item] = <<>>
    /\ \E other \in DOMAIN itemCells : BucketsOf(other) # {}

\* C3: no key of the bucket store maps to an empty bucket.
C3_NoEmptyBucket == \A k \in DOMAIN cells : Len(cells[k]) > 0

\* A Remove took out an item that an earlier Query had found in a bucket,
\* and the buckets of the other item are still there.
C3_Witness ==
    /\ last.op = "Remove" /\ last.item # Zero /\ ~Contains(last.item)
    /\ gen > 0 /\ last.item \in Range(qBuf)
    /\ DOMAIN cells # {}

\* C4 as stated: Query(q) returns every item inserted with Insert and
\* NoGridPadding whose box overlaps or touches q (already on a grid whose
\* cell size is positive).
C4_QueryFindsOverlapping ==
    cellWidth > 0 /\ cellHeight > 0 =>
        \A item \in DOMAIN plain : \A q \in Boxes :
            Overlaps(plain[item], q) => item \in Range(Returned(q))

\* C4 amended: Query(q) returns every such item whose cell range shares a
\* cell with the cell range of q; when the cell size is positive these are
\* at least the items whose box shares a region of positive width and height
\* with q.
C4_QueryFindsSharedCells ==
    \A item \in DOMAIN plain : \A q \in Boxes :
        (\/ KeysOfRange(cellRange(plain[item])) \cap KeysOfRange(cellRange(q)) # {}
         \/ cellWidth > 0 /\ cellHeight > 0 /\ OverlapsInside(plain[item], q))
        => item \in Range(Returned(q))

\* A Query has just returned an item inserted with Insert and NoGridPadding
\* that spans two cells, after an earlier Query had stamped it.
C4_Witness ==
    /\ last.op = "Query" /\ gen = 2
    /\ \E item \in DOMAIN plain :
          /\ item \in Range(qBuf)
          /\ Len(itemCells[item]) >= 2
          /\ \E q \in Boxes : OverlapsInside(plain[item], q)

\* C5: the slice Query returns holds each item at most once.
C5_QueryReturnsEachOnce ==
    /\ last.op = "Query" => NoDuplicates(qBuf)
    /\ \A q \in Boxes : NoDuplicates(Returned(q))

\* A Query has just returned both items, each of which fills several cells
\* of the grid, some of them shared.
C5_Witness ==
    /\ last.op = "Query" /\ Len(qBuf) = 2
    /\ \A item \in Items : Contains(item) /\ Cardinality(BucketsOf(item)) >= 4
    /\ \E k \in DOMAIN cells : Len(cells[k]) = 2

\* The grid holds nothing: no item, no bucket, and no Query or QueryCells
\* finds anything.
Emptied ==
    /\ \A item \in Items : ~Contains(item) /\ item \notin DOMAIN itemCells
    /\ Cells = {}
    /\ \A q \in Boxes : Returned(q) = <<>> /\ QueryCells(q) = <<>>

\* C6: an Insert or InsertFunc of an item that is present returns false and
\* leaves bucket store, reverse index, stamps and generation counter as they
\* were, whatever box, padding and predicate it is given: every step that
\* ends an insert of an item contained before the step.
C6_DuplicateInsertIsNoOp ==
    [][last'.op \in {"Insert", "InsertFunc"} /\ Contains(last'.item)
       => /\ ~last'.ret
          /\ UNCHANGED <<cells, itemCells, items, gen>>]_vars

\* An InsertFunc has just been refused for an item that sits in several
\* buckets and carries the stamp of an earlier Query.
C6_Witness ==
    /\ last.op = "InsertFunc" /\ ~last.ret
    /\ Contains(last.item) /\ Len(itemCells[last.item]) >= 2
    /\ gen > 0 /\ items[last.item] = gen

\* C7: after Remove(e), e is not contained and is in no bucket, every bucket
\* that held only e is gone from Cells and QueryCells, and an Insert(e, b)
\* that follows returns true and puts e in exactly the cells of b.
C7_RemoveIsComplete ==
    [][/\ last'.op = "Remove" =>
            \A e \in {last'.item} :
                /\ ~Contains(e)' /\ e \notin DOMAIN itemCells'
                /\ BucketsOf(e)' = {}
                /\ \A k \in DOMAIN cells :
                      (Range(cells[k]) = {e}) <=> (k \notin Cells')
                /\ \A q \in Boxes : \A k \in Range(QueryCells(q)') :
                      k \in DOMAIN cells /\ Range(cells[k]) # {e}
       /\ last.op = "Remove" /\ last'.op = "Insert" /\ last'.item = last.item =>
            \A b \in Boxes, padding \in Paddings :
                Insert(last.item, b, padding) =>
                    /\ last'.ret
                    /\ BucketsOf(last.item)' =
                          KeysOfRange(padRange(cellRange(b), padding))
                    /\ Range(itemCells'[last.item]) = BucketsOf(last.item)']_vars

\* A Remove has just taken out an item that an earlier Query had found,
\* while the other item still fills several buckets.
C7_Witness ==
    /\ last.op = "Remove" /\ last.item # Zero /\ ~Contains(last.item)
    /\ gen > 0 /\ last.item \in Range(qBuf)
    /\ Contains(Zero) /\ Cardinality(BucketsOf(Zero)) >= 2

\* C8: after Clear the grid holds nothing, the generation counter is 0 and
\* the cell size is what it was.
C8_ClearEmpties ==
    [][last'.op = "Clear" /\ Clear
       => /\ Emptied'
          /\ gen' = 0
          /\ CellSize' = CellSize]_vars

\* A Clear has just run on a grid whose last Query had returned two items:
\* the buffer still has its two (zeroed) elements.
C8_Witness == last.op = "Clear" /\ Len(qBuf) = 2 /\ gen = 0 /\ Cells = {}

\* C9: after a Resize(w, h) that changes the width or the height the grid
\* holds nothing and CellSize is exactly (w, h).
C9_ResizeDestroys ==
    [][last'.op = "Resize" =>
          \A w \in Sizes, h \in Sizes :
              (cellWidth # w \/ cellHeight # h) /\ Resize(w, h)
              => Emptied' /\ CellSize' = <<w, h>>]_vars

\* A Resize has just emptied a grid whose last Query had returned two
\* items, changing one component of the cell size only.
C9_Witness ==
    /\ last.op = "Resize" /\ Len(qBuf) = 2 /\ gen = 0 /\ Cells = {}
    /\ cellWidth # cellHeight

\* C10: the cell size is strictly positive in every state.
C10_CellSizePositive == cellWidth > 0 /\ cellHeight > 0

\* The key a package's EncodeGridKey gives.
KeyOf(pkg, x, y) ==
    IF pkg = "hash" THEN EncodeGridKey(x, y) ELSE hashgridEncodeGridKey(x, y)

\* C12: decoding the key of a pair of int32 cell coordinates gives the pair
\* back, in package hash and in package hashgrid, and no other pair of
\* coordinates has the same key.
C12_CodecRoundTrip ==
    /\ codec.out # <<>> => codec.out = <<codec.x, codec.y>>
    /\ codec.key # <<>> =>
          \A x \in KeyCoords, y \in KeyCoords :
              KeyOf(codec.pkg, x, y) = codec.key => <<x, y>> = <<codec.x, codec.y>>

\* hash.DecodeGridKey has decoded the key of (-2^31, 2^31 - 1).
C12_Witness ==
    /\ codec.pkg = "hash" /\ codec.out # <<>>
    /\ codec.x = MinInt32 /\ codec.y = MaxInt32

\* C11: New and NewWithPadding of package hashgrid panic and leave no grid
\* when cellSize <= 0; when cellSize > 0 the grid they return has CellSize()
\* equal to cellSize and an empty bucket store.  The same holds of New in the
\* variant with a reverse index.
C11_NewPanicsOnBadSize ==
    /\ IF hcall.op \in {"New", "NewWithPadding"}
       THEN IF hcall.arg[1] <= 0
            THEN hgrid = Panicked
            ELSE /\ hgrid # Panicked
                 /\ hgrid.cellSize = hcall.arg[1]
                 /\ hgrid.cells = EmptyMap
       ELSE TRUE
    /\ \A cellSize \in HSizes :
          IF cellSize <= 0
          THEN /\ New(cellSize) = Panicked
               /\ NewKeyed(cellSize) = Panicked
          ELSE /\ New(cellSize).cellSize = cellSize /\ New(cellSize).cells = EmptyMap
               /\ NewKeyed(cellSize).cellSize = cellSize
               /\ NewKeyed(cellSize).cells = EmptyMap

\* NewWithPadding was called with cell size 0 and some padding, and there is
\* no grid.
C11_Witness ==
    /\ hcall.op = "NewWithPadding" /\ hcall.arg[1] = 0 /\ hcall.arg[2] = AllPadding
    /\ hgrid = Panicked

\* The buckets of the hashgrid.Grid that hold entry.
HBucketsOf(entry) == {k \in DOMAIN hgrid.cells : entry \in Range(hgrid.cells[k])}

\* C13 as stated: on a grid made by New, Query(q) returns an entry that was
\* inserted with its present box exactly once for every rectangle q that
\* overlaps the box, and returns nothing for a q that overlaps the box of no
\* inserted entry.
C13_HashgridQueryFindsOverlapping ==
    hgrid # Panicked /\ hgrid.left + hgrid.right + hgrid.top + hgrid.bottom = 0 =>
        \A q \in HBoxes :
            /\ \A entry \in inserted :
                  Overlaps(entries[entry], q) =>
                      Count(hashgridQuery(hgrid, entries, q), entry) = 1
            /\ (\A entry \in inserted : ~Overlaps(entries[entry], q)) =>
                  hashgridQuery(hgrid, entries, q) = <<>>

\* C18 as stated: after Remove(e) no bucket holds e, and every bucket that
\* held only e is gone, also when the box of e has changed since its Insert.
C18_HashgridRemoveAfterMove ==
    [][\A entry \in Entries :
          HashgridRemove(entry) =>
              /\ HBucketsOf(entry)' = {}
              /\ \A k \in DOMAIN hgrid.cells :
                    Range(hgrid.cells[k]) = {entry} => k \notin DOMAIN hgrid'.cells]_vars

\* The step is a Query or QueryUnsafe of the grid with a reverse index.
QueryStep ==
    \E q \in KBoxes, take \in BOOLEAN : KeyedQuery(q, take) \/ KeyedQueryUnsafe(q, take)

\* The step is a Keys or KeysUnsafe of the grid with a reverse index.
KeysStep ==
    \E q \in KBoxes, take \in BOOLEAN : KeyedKeys(q, take) \/ KeyedKeysUnsafe(q, take)

\* C16: in the grid with a reverse index, no operation changes the contents
\* of a slice that Query or Keys returned, and the contents of a slice that
\* QueryUnsafe (KeysUnsafe) returned change at most in a later Query or
\* QueryUnsafe (Keys or KeysUnsafe): every step in which the caller keeps
\* the slice it holds.
C16_OwnedCopiesStay ==
    [][held.op # "none" /\ held' = held =>
          \/ Contents(heap, held.slice)' = Contents(heap, held.slice)
          \/ held.op = "QueryUnsafe" /\ QueryStep
          \/ held.op = "KeysUnsafe" /\ KeysStep]_vars

\* The caller holds the two entries a Query returned, and a later query has
\* refilled the grid's buffer with one entry, first in the other order.
C16_Witness ==
    /\ held.op = "Query" /\ held.slice.len = 2
    /\ rgrid.queryResults.len = 1
    /\ heap[rgrid.queryResults.array].elems[1] # heap[held.slice.array].elems[1]

\* C14 as stated: whenever the predicate of InsertFunc is called, and after
\* it has aborted the call, bucket store and reverse index are as they were
\* when InsertFunc was called, and no item is in a bucket without being in
\* the reverse index.
C14_NoPartialInsert ==
    /\ frame.pc = "fn" =>
          /\ cells = frame.before.cells
          /\ itemCells = frame.before.itemCells
          /\ items = frame.before.items
    /\ \A item \in Items : BucketsOf(item) # {} => item \in DOMAIN itemCells

\* C15 as stated: the slice returned by Query (it shares the array of
\* g.qBuf) keeps its items in their order over every step that is not a call
\* of Query.
C15_QueryResultKeptUntilNextQuery ==
    [][last'.op # "Query" => qBuf' = qBuf]_vars

\* C19: Resize(w, h) with w the present cell width and h the present cell
\* height changes nothing: buckets, reverse index, generation stamps,
\* generation counter, cell size (and the query buffer) stay, and every item
\* present before is present after.
C19_ResizeToSameSizeIsNoOp ==
    [][last'.op = "Resize" =>
          \A w \in Sizes, h \in Sizes :
              w = cellWidth /\ h = cellHeight /\ Resize(w, h) =>
                  /\ UNCHANGED <<cells, itemCells, items, gen, cellWidth, cellHeight, qBuf>>
                  /\ \A item \in Items : Contains(item) => Contains(item)']_vars

\* A Resize (to the same size, since the grid is not empty after it) of a grid
\* that holds items in buckets, has answered a query and has seen one.
C19_Witness ==
    /\ last.op = "Resize"
    /\ DOMAIN cells # {} /\ DOMAIN itemCells = Items
    /\ gen > 0 /\ qBuf # <<>>

\* The predicate fn rejects every cell of the (padded) range of b.
AllRejected(b, padding, fn) ==
    LET cs == RangeCells(padRange(cellRange(b), padding))
    IN  fn # "nil" /\ \A n \in DOMAIN cs : ~doInsert(fn, cs[n])

\* What C17 says of InsertFunc, on the grid as it stands and for every call
\* that could follow.
AllRejectedIsRecorded ==
    \A item \in Items, b \in Boxes, padding \in Paddings, fn \in Fns :
        ~Contains(item) /\ AllRejected(b, padding, fn) =>
            LET r == insert(item, b, padding, fn)
            IN  /\ r.ret
                /\ item \in DOMAIN r.items /\ item \in DOMAIN r.itemCells
                /\ r.itemCells[item] = <<>>
                /\ r.cells = cells
                /\ \A q \in Boxes : item \notin Range(queryOn(r.cells, r.items, gen, q).qBuf)

\* C17: an InsertFunc of an absent item whose predicate rejects every cell of
\* the range returns true and records the item with an empty key list: the
\* item is contained, no bucket is created or changed and no Query returns
\* the item; a further Insert of an item recorded with an empty key list
\* returns false; and Remove of such an item makes it not contained and
\* leaves every bucket as it was.
C17_AllCellsRejected ==
    /\ []AllRejectedIsRecorded
    /\ [][/\ (/\ last'.op = "Insert" /\ Contains(last'.item)
              /\ itemCells[last'.item] = <<>>)
             => (~last'.ret /\ UNCHANGED <<cells, items, itemCells>>)
          /\ (/\ last'.op = "Remove" /\ Contains(last'.item)
              /\ itemCells[last'.item] = <<>>)
             => (last'.item \notin DOMAIN items' /\ cells' = cells)]_vars

\* An InsertFunc has recorded its item with no key, beside an item that is in
\* buckets and that a Query has returned.
C17_Witness ==
    /\ last.op = "InsertFunc" /\ last.ret
    /\ Contains(last.item) /\ itemCells[last.item] = <<>>
    /\ DOMAIN cells # {} /\ qBuf # <<>>

\* What C20 says of Query, on the grid as it stands: over a rectangle whose
\* cell range has no occupied cell it returns nothing and leaves the same
\* items present.
EmptyRegionQueriesEmpty ==
    \A q \in Boxes :
        QueryCells(q) = <<>> =>
            LET r == queryOn(cells, items, gen, q)
            IN  r.qBuf = <<>> /\ DOMAIN r.items = DOMAIN items

\* C20: Remove of an item that is not present changes neither the bucket
\* store, nor the reverse index, nor the generation stamps, nor the generation
\* counter; and Query over a region with no occupied cell returns an empty
\* result and leaves membership, buckets and reverse index as they were.
C20_AbsentRemoveAndEmptyQuery ==
    /\ []EmptyRegionQueriesEmpty
    /\ [][/\ (last'.op = "Remove" /\ ~Contains(last'.item))
             => UNCHANGED <<cells, itemCells, items, gen>>
          /\ (last'.op = "Query" /\ qBuf' = <<>>)
             => (/\ DOMAIN items' = DOMAIN items
                 /\ UNCHANGED <<cells, itemCells>>)]_vars

\* A Query has returned nothing from a grid with occupied cells: no cell of
\* its range was occupied.
C20_Witness ==
    /\ last.op = "Query" /\ qBuf = <<>>
    /\ DOMAIN cells # {} /\ DOMAIN items # {}

\* The keys of the cells <<cx, cy>> with
\*   floor(minX / cellWidth) - p <= cx < ceil(maxX / cellWidth) + p
\*   floor(minY / cellHeight) - p <= cy < ceil(maxY / cellHeight) + p.
ClaimedCells(b, p) ==
    {EncodeGridKey(cx, cy) :
        cx \in (FloorDiv(b[1], cellWidth) - p)..(CeilDiv(b[3], cellWidth) + p - 1),
        cy \in (FloorDiv(b[2], cellHeight) - p)..(CeilDiv(b[4], cellHeight) + p - 1)}

\* C21: a successful Insert with NoGridPadding puts the item in the buckets
\* of exactly the cells of the half-open floor/ceil range of its box (so a box
\* that ends on a cell boundary is not in the next cell), and with
\* GridCellPadding in exactly the cells of that range widened by one cell on
\* each of the four sides.  The first conjunct reads it off the items that
\* were inserted so, the second off every Insert that could follow.
C21_InsertOccupiesFloorCeilRange ==
    /\ \A item \in DOMAIN plain : BucketsOf(item) = ClaimedCells(plain[item], 0)
    /\ \A item \in Items, b \in Boxes, padding \in Paddings :
          ~Contains(item) =>
              LET r == insert(item, b, padding, "nil")
              IN  /\ r.ret
                  /\ {k \in DOMAIN r.cells : item \in Range(r.cells[k])}
                        = ClaimedCells(b, IF padding = GridCellPadding THEN 1 ELSE 0)

\* An Insert without padding has put a box that ends on the cell boundary
\* x = 0 into the cell left of the boundary and into no other.
C21_Witness ==
    /\ last.op = "Insert" /\ last.ret /\ last.item \in DOMAIN plain
    /\ cellWidth = 2 /\ cellHeight = 2
    /\ plain[last.item][1] = -1 /\ plain[last.item][3] = 0
    /\ BucketsOf(last.item) = {EncodeGridKey(-1, 0)}

\* A padding value as the set of the sides it names, and back: the bits are
\* distinct, so their bitwise or is their sum.
Sides == {LeftPadding, RightPadding, TopPadding, BottomPadding}

PaddingOf(sides) ==
    (IF LeftPadding \in sides THEN LeftPadding ELSE 0)
    + (IF RightPadding \in sides THEN RightPadding ELSE 0)
    + (IF TopPadding \in sides THEN TopPadding ELSE 0)
    + (IF BottomPadding \in sides THEN BottomPadding ELSE 0)

\* The keys of the NoPadding range of box b, int32(min/cellSize) up to
\* int32(max/cellSize) - 1 on each axis, with one more cell on each side of
\* sides.
PaddedKeys(b, cellSize, sides) ==
    {hashgridEncodeGridKey(x, y) :
        x \in (TruncDiv(b[1], cellSize) - (IF LeftPadding \in sides THEN 1 ELSE 0))
              ..(TruncDiv(b[3], cellSize) - 1 + (IF RightPadding \in sides THEN 1 ELSE 0)),
        y \in (TruncDiv(b[2], cellSize) - (IF TopPadding \in sides THEN 1 ELSE 0))
              ..(TruncDiv(b[4], cellSize) - 1 + (IF BottomPadding \in sides THEN 1 ELSE 0))}

\* C22: for every padding value built from the four sides, NoPadding and
\* AllPadding among them, GetKeys on a grid made by NewWithPadding with the
\* cell size of the present grid is the NoPadding range of the box with one
\* more cell on exactly the sides the value names (left startX-1, right
\* endX+1, top startY-1, bottom endY+1), each key once.
C22_PaddingExtendsNamedSides ==
    hgrid # Panicked =>
        \A sides \in SUBSET Sides, b \in HBoxes :
            LET g == NewWithPadding(hgrid.cellSize, PaddingOf(sides))
                keys == GetKeys(g, b)
            IN  /\ Range(keys) = PaddedKeys(b, hgrid.cellSize, sides)
                /\ NoDuplicates(keys)
                /\ sides = {} => keys = GetKeys(New(hgrid.cellSize), b)
                /\ PaddingOf(sides) = PaddingOf(Sides) =>
                      keys = GetKeys(NewWithPadding(hgrid.cellSize, AllPadding), b)

\* On a grid padded on the left only, an Insert has put an entry into the
\* cells GetKeys gives, which are more than its NoPadding range.
C22_Witness ==
    /\ hgrid # Panicked /\ hcall.op = "Insert"
    /\ hgrid.left = 1 /\ hgrid.right = 0 /\ hgrid.top = 0 /\ hgrid.bottom = 0
    /\ LET b == entries[hcall.arg]
       IN  /\ Range(GetKeys(hgrid, b)) \subseteq HBucketsOf(hcall.arg)
           /\ Range(GetKeys(hgrid, b)) = PaddedKeys(b, hgrid.cellSize, {LeftPadding})
           /\ Range(GetKeys(hgrid, b)) # Range(GetKeys(New(hgrid.cellSize), b))

\* The cells of the floor/ceil range of b, widened by p cells on each side.
ClaimedCoords(b, p) ==
    ((FloorDiv(b[1], cellWidth) - p)..(CeilDiv(b[3], cellWidth) + p - 1))
    \X ((FloorDiv(b[2], cellHeight) - p)..(CeilDiv(b[4], cellHeight) + p - 1))

\* The world bounds of cell c.
WorldBounds(c) ==
    <<c[1] * cellWidth, c[2] * cellHeight,
      (c[1] + 1) * cellWidth, (c[2] + 1) * cellHeight>>

\* C23: a successful InsertFunc with a predicate calls it once for each cell
\* of the (padded) range, with the world bounds of the cell, and makes no
\* other call; the item is then in the buckets of exactly the cells the
\* predicate accepted, and its key list holds exactly their keys, each once.
C23_PredicateChoosesCells ==
    \A item \in Items, b \in Boxes, padding \in Paddings, fn \in Fns \ {"nil"} :
        ~Contains(item) =>
            LET coords == ClaimedCoords(b, IF padding = GridCellPadding THEN 1 ELSE 0)
                calls == insertCalls(RangeCells(padRange(cellRange(b), padding)), 1, fn)
                accepted == {EncodeGridKey(c[1], c[2]) :
                                c \in {d \in coords :
                                          GridInsertionFunc(fn, WorldBounds(d)[1],
                                              WorldBounds(d)[2], WorldBounds(d)[3],
                                              WorldBounds(d)[4])}}
                r == insert(item, b, padding, fn)
            IN  /\ \A c \in coords : Count(calls, WorldBounds(c)) = 1
                /\ Len(calls) = Cardinality(coords)
                /\ r.ret
                /\ {k \in DOMAIN r.cells : item \in Range(r.cells[k])} = accepted
                /\ Range(r.itemCells[item]) = accepted
                /\ NoDuplicates(r.itemCells[item])

\* An InsertFunc has put its item into several cells, all of them left of
\* x = 0, on a grid of cell size 2: the range was padded, so it had cells from
\* x = 0 on, and the predicate turned those down.
C23_Witness ==
    /\ last.op = "InsertFunc" /\ last.ret
    /\ cellWidth = 2 /\ cellHeight = 2
    /\ last.item \in DOMAIN itemCells /\ Len(itemCells[last.item]) >= 2
    /\ BucketsOf(last.item) = Range(itemCells[last.item])
    /\ \A n \in DOMAIN itemCells[last.item] :
          DecodeGridKey(itemCells[last.item][n])[1] < 0

\* C24: the grid with generation stamps and a grid with a seen set go
\* through the same Insert, InsertFunc, Remove, Clear and Resize calls, which
\* do not read the stamps, so both keep the same bucket store; then whatever
\* rectangle the next Query is called with, the stamps make it return the
\* items the seen set makes it return, in the same order, and the Query that
\* was last called has returned them.
C24_StampsMatchSeenSet ==
    /\ \A q \in Boxes : Returned(q) = seenSetQueryOn(cells, q)
    /\ last.op = "Query" => \E q \in Boxes : qBuf = seenSetQueryOn(cells, q)

\* A second Query has returned both items, one of which is in two scanned
\* cells and carries the stamp of this Query.
C24_Witness ==
    /\ last.op = "Query" /\ gen = 2
    /\ Len(qBuf) = 2
    /\ \E item \in DOMAIN itemCells :
          /\ Len(itemCells[item]) >= 2 /\ items[item] = gen
    /\ \E q \in Boxes : qBuf = seenSetQueryOn(cells, q) /\ Len(QueryCells(q)) >= 2

\* The keys of the cells of the floor/ceil half-open range of q on a grid of
\* square cells.
SquareRangeKeys(q, cellSize) ==
    {hashgridEncodeGridKey(x, y) :
        x \in FloorDiv(q[1], cellSize)..(CeilDiv(q[3], cellSize) - 1),
        y \in FloorDiv(q[2], cellSize)..(CeilDiv(q[4], cellSize) - 1)}

\* C25: whatever Insert, Remove and Clear calls came before, QueryCells of
\* hash.Grid and KeysUnsafe and Keys of the hashgrid.Grid of part_000 return,
\* for every region, the keys of the cells of the region's floor/ceil
\* half-open range that hold an entry at present, each key once; on a grid
\* that holds nothing (as after Insert(A), Remove(A) on an empty grid) they
\* return no key.
C25_KeysAreOccupiedCells ==
    /\ last.op # Absent =>
          \A q \in Boxes :
              LET ks == QueryCells(q)
              IN  /\ Range(ks) = {k \in ClaimedCells(q, 0) :
                                     k \in DOMAIN cells /\ Len(cells[k]) >= 1}
                  /\ NoDuplicates(ks)
                  /\ DOMAIN itemCells = {} => ks = <<>>
    /\ last.op = Absent /\ rgrid # Panicked =>
          \A q \in KBoxes :
              LET r == keysUnsafe(rgrid, heap, q)
                  ks == Contents(r.heap, r.slice)
                  c == Clone(r.heap, r.slice)
              IN  /\ Range(ks) = {k \in SquareRangeKeys(q, rgrid.cellSize) :
                                     k \in DOMAIN rgrid.cells
                                     /\ Len(rgrid.cells[k]) >= 1}
                  /\ NoDuplicates(ks)
                  /\ Contents(c.heap, c.slice) = ks
                  /\ DOMAIN rgrid.cellKeys = {} => ks = <<>>

\* The caller holds the one key KeysUnsafe has returned for a region, on a
\* grid with two occupied cells: the other cell is outside the region.
C25_Witness ==
    /\ last.op = Absent /\ rgrid # Panicked
    /\ held.op = "KeysUnsafe" /\ held.slice = rgrid.queryKeys
    /\ held.slice.len = 1
    /\ Cardinality(DOMAIN rgrid.cells) = 2
    /\ \E q \in KBoxes :
          LET r == keysUnsafe(rgrid, heap, q)
          IN  Contents(heap, held.slice) = Contents(r.heap, r.slice)

\* The items in the buckets of the cells Query(q) scans.
ItemsInRange(q) ==
    UNION {Range(cells[QueryCells(q)[n]]) : n \in DOMAIN QueryCells(q)}

\* C26: in every state reached by Insert, InsertFunc, Remove, Clear, Resize
\* and Query the generation stamp of every stored item is at most the
\* generation counter, so the counter that the next Query moves to is the
\* stamp of no item and that Query returns every item of the buckets it
\* scans; and a Query changes the counter, the stamps and the result buffer
\* only: bucket store, reverse index, cell size and the set of contained
\* items stay.
C26_StampsBelowCounter ==
    /\ [](/\ \A item \in DOMAIN items : items[item] <= gen
          /\ \A q \in Boxes : ItemsInRange(q) = Range(Returned(q)))
    /\ [][last'.op = "Query" =>
             /\ UNCHANGED <<cells, itemCells, cellWidth, cellHeight>>
             /\ DOMAIN items' = DOMAIN items
             /\ gen' = gen + 1]_vars

\* After the second Query one item carries its stamp, the other an older
\* stamp, and both are in buckets.
C26_Witness ==
    /\ last.op = "Query" /\ gen >= 2
    /\ \E a \in DOMAIN items, b \in DOMAIN items :
          /\ items[a] = gen /\ items[b] < gen
          /\ BucketsOf(a) # {} /\ BucketsOf(b) # {}

====
